---------------------------- MODULE Spec2Model ----------------------------
(***************************************************************************)
(* A model of beuamontUserguide.py (LabMate): the document structuring     *)
(* pipeline (process_docx, process_table, get_table_context,               *)
(* table_to_markdown) and the Streamlit session logic (main,               *)
(* handle_user_input, handle_error, log_audit_entry).                      *)
(*                                                                         *)
(* Text is modelled as a sequence of one-character strings, so that        *)
(* str.strip, str.join and splitting on a delimiter are computed, not      *)
(* assumed.                                                                *)
(***************************************************************************)
EXTENDS Naturals, Sequences, FiniteSets

\* ------------------------------------------------------------------ bounds
MaxParas == 3
MaxTables == 2
MaxRows == 2
MaxCols == 2
MaxPrev == 4
MaxRuns == 4
MaxChunks == 2

\* ------------------------------------------------------------ text helpers
SeqsUpTo(S, n) == UNION {[1..k -> S] : k \in 0..n}

Range(s) == {s[k] : k \in 1..Len(s)}

Whitespace == {" ", "\n", "\t"}

RECURSIVE LStrip(_)
LStrip(s) ==
    IF s # <<>> /\ Head(s) \in Whitespace THEN LStrip(Tail(s)) ELSE s

RECURSIVE RStrip(_)
RStrip(s) ==
    IF s # <<>> /\ s[Len(s)] \in Whitespace
    THEN RStrip(SubSeq(s, 1, Len(s) - 1))
    ELSE s

\* str.strip()
Strip(s) == RStrip(LStrip(s))

\* sep.join(parts)
RECURSIVE Join(_, _)
Join(sep, parts) ==
    IF parts = <<>> THEN <<>>
    ELSE IF Len(parts) = 1 THEN parts[1]
    ELSE parts[1] \o sep \o Join(sep, Tail(parts))

\* reversed(list)
Reversed(s) == [k \in 1..Len(s) |-> s[Len(s) + 1 - k]]

NL == <<"\n">>

\* --------------------------------------------------------------- variables
VARIABLES
    doc,              \* the parsed DOCX: paragraphs and tables (input)
    pc,               \* position of process_docx / generate_system_prompt
    i,                \* index of the next paragraph of the loop at line 96
    text_content,     \* process_docx: text_content
    current_section,  \* process_docx: current_section
    origin,           \* history: paragraph index that opened each emitted section
    curOrigin,        \* history: paragraph index that opened current_section
    tablesOut,        \* the list built by the comprehension at line 115
    caught,           \* the exception the handler at line 117 caught ("none" if none)
    result,           \* what process_docx returned
    tables_md         \* generate_system_prompt: tables_md

docVars == <<doc, pc, i, text_content, current_section, origin, curOrigin,
             tablesOut, caught, result, tables_md>>

VARIABLES
    at,               \* position of the script run (main / handle_user_input)
    runs,             \* number of script runs started so far
    session_keys,     \* the keys present in st.session_state
    messages,         \* st.session_state.messages
    msgRun,           \* history: the run in which each message was appended
    current_dept,     \* st.session_state.current_dept
    deptSince,        \* history: the run in which current_dept was assigned
    chat,             \* st.session_state.chat: the department of its system prompt
    audit_log,        \* st.session_state.audit_log
    selected_dept,    \* main: selected_dept, handle_user_input: department
    prompt,           \* main, handle_user_input: prompt ("" when there is none)
    full_response     \* handle_user_input: number of chunks in full_response

sessVars == <<at, runs, session_keys, messages, msgRun, current_dept, deptSince,
              chat, audit_log, selected_dept, prompt, full_response>>

vars == <<docVars, sessVars>>

\* ------------------------------------------------------------ input space
\* Paragraph texts: blank, plain, and one with trailing whitespace.
ParaTexts == {<<" ">>, <<"a">>, <<"b", " ">>}

HeadingWord == <<"H", "e", "a", "d", "i", "n", "g">>
StyleNames == {HeadingWord \o <<" ", "1">>, <<"N", "o", "r", "m", "a", "l">>}

\* para.runs: no run, a bold first run, a first run that is not bold.
RunLists == {<<>>, <<[bold |-> "True"]>>, <<[bold |-> "None"]>>}

ParaKinds == [text : ParaTexts, style : StyleNames, runs : RunLists]

\* Cell texts as python-docx gives them: a multi-paragraph cell holds "\n".
CellTexts == {<<"a">>, <<" ", "b">>, <<"c", "\n", "d">>}

\* A cell text that holds the characters of the grid's cell delimiter.
PipeText == <<"e", " ", "|", " ", "f">>

ParaTag == <<"{w}", "p">>
TblTag == <<"{w}", "t", "b", "l">>
\* Body-level XML elements that may precede a table.
Elems == [tag : {ParaTag, TblTag}, text : ParaTexts]

\* A table row has at least one cell; rows of one table may differ in length
\* (merged or omitted cells).
RawRows == SeqsUpTo(CellTexts, MaxCols) \ {<<>>}

\* The rows of a table that has a header row of one cell and no data row.
HeaderOnly == <<<<<<"a">>>>>>

BodyPara == [text |-> <<"a">>, style |-> <<"N", "o", "r", "m", "a", "l">>, runs |-> <<>>]

\* Tables: every grid up to MaxRows x MaxCols, a one-cell table whose header
\* holds the delimiter, and every run of preceding elements up to MaxPrev
\* before a one-cell table.
RawTables ==
    [rows : SeqsUpTo(RawRows, MaxRows) \cup {<<<<PipeText>>>>}, prev : {<<>>}]
    \cup [rows : {HeaderOnly}, prev : SeqsUpTo(Elems, MaxPrev)]

SmallTables == {[rows |-> <<>>, prev |-> <<>>],
                [rows |-> HeaderOnly, prev |-> <<>>]}

Docs ==
    [paragraphs : SeqsUpTo(ParaKinds, MaxParas), tables : {<<>>}]
    \cup [paragraphs : {<<>>, <<BodyPara>>},
          tables : {<<t>> : t \in RawTables} \cup SeqsUpTo(SmallTables, MaxTables)]

\* ------------------------------------------------------- get_table_context
StartsWith(s, prefix) ==
    Len(s) >= Len(prefix) /\ SubSeq(s, 1, Len(prefix)) = prefix

EndsWith(s, suffix) ==
    Len(s) >= Len(suffix)
    /\ SubSeq(s, Len(s) - Len(suffix) + 1, Len(s)) = suffix

\* The while loop of lines 138-142: k is the position of prev_element among
\* the elements before the table (0: getprevious() returned None).
RECURSIVE ContextWalk(_, _, _)
ContextWalk(prev, k, context) ==
    IF k >= 1 /\ EndsWith(prev[k].tag, <<"p">>)
    THEN LET text == Strip(prev[k].text)
         IN ContextWalk(prev, k - 1,
                        IF text # <<>> THEN Append(context, text) ELSE context)
    ELSE context

\* Mutant: the collected fragments are joined nearest-first (no reversed()).
get_table_context_NoReverse(table) ==
    LET context == ContextWalk(table.prev, Len(table.prev), <<>>)
    IN IF context # <<>> THEN Join(NL, context) ELSE <<>>

get_table_context(table) ==
    LET context == ContextWalk(table.prev, Len(table.prev), <<>>)
    IN IF context # <<>> THEN Join(NL, Reversed(context)) ELSE <<>>

\* ----------------------------------------------------------- process_table
Raise(e) == [exc |-> e, value |-> <<>>]
Return(v) == [exc |-> "none", value |-> v]

EmptyDict == [x \in {} |-> <<>>]

\* d[k] = v
DictSet(d, k, v) == [x \in (DOMAIN d) \cup {k} |-> IF x = k THEN v ELSE d[x]]

\* d.get(k, default)
DictGet(d, k, default) == IF k \in DOMAIN d THEN d[k] ELSE default

\* {headers[i]: cell.text.strip() for i, cell in enumerate(row.cells)},
\* for cells n..len(cells) (1-based); the caller checks that headers[i] exists.
RECURSIVE RowDictFrom(_, _, _, _)
RowDictFrom(headers, cells, n, d) ==
    IF n > Len(cells) THEN d
    ELSE RowDictFrom(headers, cells, n + 1, DictSet(d, headers[n], Strip(cells[n])))

\* headers[i] raises IndexError for a cell beyond the header row.
RowRaises(headers, cells) == Len(cells) > Len(headers)

\* Mutant: a table without rows yields a table without headers, no error.
process_table_NoRowCheck(table) ==
    IF table.rows = <<>>
    THEN Return([context |-> get_table_context(table), headers |-> <<>>,
                 rows |-> <<>>])
    ELSE LET first == table.rows[1]
             headers == [k \in 1..Len(first) |-> Strip(first[k])]
             data == Tail(table.rows)
         IN IF \E k \in 1..Len(data) : RowRaises(headers, data[k])
            THEN Raise("IndexError")
            ELSE Return([context |-> get_table_context(table),
                         headers |-> headers,
                         rows |-> [k \in 1..Len(data) |->
                                      RowDictFrom(headers, data[k], 1, EmptyDict)]])

process_table(table) ==
    IF table.rows = <<>> THEN Raise("IndexError")
    ELSE LET first == table.rows[1]
             headers == [k \in 1..Len(first) |-> Strip(first[k])]
             data == Tail(table.rows)
         IN IF \E k \in 1..Len(data) : RowRaises(headers, data[k])
            THEN Raise("IndexError")
            ELSE Return([context |-> get_table_context(table),
                         headers |-> headers,
                         rows |-> [k \in 1..Len(data) |->
                                      RowDictFrom(headers, data[k], 1, EmptyDict)]])

\* ------------------------------------------------------- table_to_markdown
Bar == <<"|", " ">>
Sep == <<" ", "|", " ">>
EndBar == <<" ", "|", "\n">>
Dashes == <<"-", "-", "-">>

MdLine(cells) == Bar \o Join(Sep, cells) \o EndBar

RECURSIVE MdRows(_, _)
MdRows(headers, rows) ==
    IF rows = <<>> THEN <<>>
    ELSE MdLine([k \in 1..Len(headers) |-> DictGet(rows[1], headers[k], <<>>)])
         \o MdRows(headers, Tail(rows))

table_to_markdown(table_data) ==
    MdLine(table_data.headers)
    \o MdLine([k \in 1..Len(table_data.headers) |-> Dashes])
    \o MdRows(table_data.headers, table_data.rows)

\* ------------------------------------------------------------ process_docx
Introduction == <<"I", "n", "t", "r", "o", "d", "u", "c", "t", "i", "o", "n">>

NoResult == [returned |-> FALSE, sections |-> <<>>, tables |-> <<>>]

\* para.style.name.startswith('Heading') or (para.runs and para.runs[0].bold)
IsHeadingOrBold(para) ==
    \/ StartsWith(para.style, HeadingWord)
    \/ (para.runs # <<>> /\ para.runs[1].bold = "True")

\* The session before the first script run.
SessionStart ==
    /\ at = "idle"
    /\ runs = 0
    /\ session_keys = {}
    /\ messages = <<>>
    /\ msgRun = <<>>
    /\ current_dept = "unset"
    /\ deptSince = 0
    /\ chat = "unset"
    /\ audit_log = <<>>
    /\ selected_dept = "unset"
    /\ prompt = ""
    /\ full_response = 0

Init ==
    /\ SessionStart
    /\ doc \in Docs
    /\ pc = "paragraphs"
    /\ i = 1
    /\ text_content = <<>>
    /\ current_section = [title |-> Introduction, content |-> <<>>]
    /\ origin = <<>>
    /\ curOrigin = 0
    /\ tablesOut = <<>>
    /\ caught = "none"
    /\ result = NoResult
    /\ tables_md = <<>>

\* Mutant: a heading emits the current section even when it has no content.
ParaStep_EmitEmpty ==
    /\ pc = "paragraphs"
    /\ i <= Len(doc.paragraphs)
    /\ LET para == doc.paragraphs[i]
           text == Strip(para.text)
       IN IF text # <<>>
          THEN IF IsHeadingOrBold(para)
               THEN /\ text_content' = Append(text_content, current_section)
                    /\ origin' = Append(origin, curOrigin)
                    /\ current_section' =
                           [title |-> text, content |-> <<>>, subsections |-> <<>>]
                    /\ curOrigin' = i
               ELSE /\ current_section' =
                           [current_section EXCEPT !.content = Append(@, text)]
                    /\ UNCHANGED <<text_content, origin, curOrigin>>
          ELSE UNCHANGED <<text_content, origin, current_section, curOrigin>>
    /\ i' = i + 1
    /\ UNCHANGED <<doc, pc, tablesOut, caught, result, tables_md>>
    /\ UNCHANGED sessVars

\* One iteration of the loop at lines 96-108.
ParaStep ==
    /\ pc = "paragraphs"
    /\ i <= Len(doc.paragraphs)
    /\ LET para == doc.paragraphs[i]
           text == Strip(para.text)
       IN IF text # <<>>
          THEN IF IsHeadingOrBold(para)
               THEN /\ IF current_section.content # <<>>
                       THEN /\ text_content' = Append(text_content, current_section)
                            /\ origin' = Append(origin, curOrigin)
                       ELSE UNCHANGED <<text_content, origin>>
                    /\ current_section' =
                           [title |-> text, content |-> <<>>, subsections |-> <<>>]
                    /\ curOrigin' = i
               ELSE /\ current_section' =
                           [current_section EXCEPT !.content = Append(@, text)]
                    /\ UNCHANGED <<text_content, origin, curOrigin>>
          ELSE UNCHANGED <<text_content, origin, current_section, curOrigin>>
    /\ i' = i + 1
    /\ UNCHANGED <<doc, pc, tablesOut, caught, result, tables_md>>
    /\ UNCHANGED sessVars

\* Mutant: the section being accumulated when the loop ends is not emitted.
LoopEnd_NoFlush ==
    /\ pc = "paragraphs"
    /\ i > Len(doc.paragraphs)
    /\ pc' = "tables"
    /\ UNCHANGED <<doc, i, text_content, origin, current_section, curOrigin,
                   tablesOut, caught, result, tables_md>>
    /\ UNCHANGED sessVars

\* Lines 110-111, after the loop.
LoopEnd ==
    /\ pc = "paragraphs"
    /\ i > Len(doc.paragraphs)
    /\ IF current_section.content # <<>>
       THEN /\ text_content' = Append(text_content, current_section)
            /\ origin' = Append(origin, curOrigin)
       ELSE UNCHANGED <<text_content, origin>>
    /\ pc' = "tables"
    /\ UNCHANGED <<doc, i, current_section, curOrigin, tablesOut, caught, result,
                   tables_md>>
    /\ UNCHANGED sessVars

\* One element of the comprehension at line 115; an exception of
\* process_table reaches the handler at lines 117-119 (st.error, st.stop).
TableStep ==
    /\ pc = "tables"
    /\ Len(tablesOut) < Len(doc.tables)
    /\ LET r == process_table(doc.tables[Len(tablesOut) + 1])
       IN IF r.exc = "none"
          THEN /\ tablesOut' = Append(tablesOut, r.value)
               /\ UNCHANGED <<pc, caught>>
          ELSE /\ caught' = r.exc
               /\ pc' = "stopped"
               /\ UNCHANGED tablesOut
    /\ UNCHANGED <<doc, i, text_content, current_section, origin, curOrigin,
                   result, tables_md>>
    /\ UNCHANGED sessVars

\* The return at lines 113-116.
ReturnDoc ==
    /\ pc = "tables"
    /\ Len(tablesOut) = Len(doc.tables)
    /\ result' = [returned |-> TRUE, sections |-> text_content, tables |-> tablesOut]
    /\ pc' = "returned"
    /\ UNCHANGED <<doc, i, text_content, current_section, origin, curOrigin,
                   tablesOut, caught, tables_md>>
    /\ UNCHANGED sessVars

\* generate_system_prompt, lines 158-160: one grid per table of the document.
RenderTables ==
    /\ pc = "returned"
    /\ tables_md' = [k \in 1..Len(result.tables) |->
                        [index |-> k, grid |-> table_to_markdown(result.tables[k])]]
    /\ pc' = "rendered"
    /\ UNCHANGED <<doc, i, text_content, current_section, origin, curOrigin,
                   tablesOut, caught, result>>
    /\ UNCHANGED sessVars

Next == ParaStep \/ LoopEnd \/ TableStep \/ ReturnDoc \/ RenderTables

Spec == Init /\ [][Next]_vars

\* ------------------------------------------------------------- the session
\* DEPARTMENT_FILES, lines 21-24.
Departments == {"In House Test", "External Referral"}

Prompts == {"glucose test"}

UserMsg(content) == [role |-> "user", content |-> content]

AssistantMsg(content) == [role |-> "assistant", content |-> content]

ErrorReply == "Error processing request - contact Lab Support"

Entry(query, department) == [query |-> query, department |-> department]

\* What the run does at lines 352-358 when the department is new:
\* generate_system_prompt may stop the script (lines 243-245) and ChatGoogle
\* may raise; either way the run ends after lines 353-354 took effect.
Construction == {"ok", "prompt_error", "chat_error"}

SessionInit ==
    /\ SessionStart
    /\ doc = [paragraphs |-> <<>>, tables |-> <<>>]
    /\ pc = "cached"
    /\ i = 1
    /\ text_content = <<>>
    /\ current_section = [title |-> Introduction, content |-> <<>>]
    /\ origin = <<>>
    /\ curOrigin = 0
    /\ tablesOut = <<>>
    /\ caught = "none"
    /\ result = [returned |-> TRUE, sections |-> <<>>, tables |-> <<>>]
    /\ tables_md = <<>>

\* How a script run can end before the department block: verify_environment
\* stops it (lines 55-62), or loading the departments fails (lines 344-348,
\* or st.stop inside process_docx).
EarlyExits == {"none", "verify", "load"}

\* A script run of main, lines 326-363, up to the call of handle_user_input:
\* sel is the selectbox value, input the chat input ("" when none).
Main(sel, input, early, built) ==
    /\ at = "idle"
    /\ runs < MaxRuns
    /\ runs' = runs + 1
    /\ IF early = "verify"
       THEN UNCHANGED <<at, session_keys, messages, msgRun, current_dept,
                        deptSince, chat, selected_dept, prompt, full_response>>
       ELSE IF early = "load"
       THEN /\ session_keys' = session_keys \cup {"messages", "session_id"}
            /\ UNCHANGED <<at, messages, msgRun, current_dept, deptSince, chat,
                           selected_dept, prompt, full_response>>
       ELSE /\ selected_dept' = sel
            /\ prompt' = input
            /\ full_response' = 0
            /\ IF "current_dept" \notin session_keys \/ current_dept # sel
               THEN /\ current_dept' = sel
                    /\ deptSince' = runs + 1
                    /\ messages' = <<>>
                    /\ msgRun' = <<>>
                    /\ IF built = "ok"
                       THEN /\ chat' = sel
                            /\ session_keys' =
                                   session_keys \cup {"messages", "session_id",
                                                      "current_dept", "chat"}
                            /\ at' = IF input # "" THEN "handle" ELSE "idle"
                       ELSE /\ session_keys' =
                                   session_keys \cup {"messages", "session_id",
                                                      "current_dept"}
                            /\ at' = "idle"
                            /\ UNCHANGED chat
               ELSE /\ session_keys' = session_keys \cup {"messages", "session_id"}
                    /\ at' = IF input # "" THEN "handle" ELSE "idle"
                    /\ UNCHANGED <<current_dept, deptSince, messages, msgRun, chat>>
    /\ UNCHANGED audit_log
    /\ UNCHANGED docVars

Rerun ==
    \E sel \in Departments : \E input \in Prompts \cup {""} :
        \E early \in EarlyExits : \E built \in Construction :
            Main(sel, input, early, built)

\* handle_user_input, lines 367-372.
AppendUser ==
    /\ at = "handle"
    /\ messages' = Append(messages, UserMsg(prompt))
    /\ msgRun' = Append(msgRun, runs)
    /\ at' = "try"
    /\ UNCHANGED <<runs, session_keys, current_dept, deptSince, chat, audit_log,
                   selected_dept, prompt, full_response>>
    /\ UNCHANGED docVars

\* Lines 377-389: st.session_state.chat raises AttributeError when the key is
\* missing; otherwise the query is sent to the chat.
SendQuery ==
    /\ at = "try"
    /\ at' = IF "chat" \in session_keys THEN "stream" ELSE "except"
    /\ UNCHANGED <<runs, session_keys, messages, msgRun, current_dept, deptSince,
                   chat, audit_log, selected_dept, prompt, full_response>>
    /\ UNCHANGED docVars

\* One chunk of the loop at lines 391-395.
Chunk ==
    /\ at = "stream"
    /\ full_response < MaxChunks
    /\ full_response' = full_response + 1
    /\ UNCHANGED <<at, runs, session_keys, messages, msgRun, current_dept,
                   deptSince, chat, audit_log, selected_dept, prompt>>
    /\ UNCHANGED docVars

\* The stream raises while it is iterated.
StreamRaises ==
    /\ at = "stream"
    /\ at' = "except"
    /\ UNCHANGED <<runs, session_keys, messages, msgRun, current_dept, deptSince,
                   chat, audit_log, selected_dept, prompt, full_response>>
    /\ UNCHANGED docVars

\* The stream ends: lines 397-399.
AppendReply ==
    /\ at = "stream"
    /\ messages' = Append(messages, AssistantMsg("reply"))
    /\ msgRun' = Append(msgRun, runs)
    /\ at' = "audit"
    /\ UNCHANGED <<runs, session_keys, current_dept, deptSince, chat, audit_log,
                   selected_dept, prompt, full_response>>
    /\ UNCHANGED docVars

\* log_audit_entry, lines 281-296: the entry joins the session's audit log,
\* then the file is opened and written, which may raise.
\* The script goes on at `next`, or at `handler` when the call raises.
log_audit_entry(query, department, raises, next, handler) ==
    /\ audit_log' = Append(audit_log, Entry(query, department))
    /\ session_keys' = session_keys \cup {"audit_log"}
    /\ at' = IF raises THEN handler ELSE next

\* Line 401, inside the try block of handle_user_input.
Audit ==
    /\ at = "audit"
    /\ \E raises \in BOOLEAN :
          log_audit_entry(prompt, selected_dept, raises, "idle", "except")
    /\ UNCHANGED <<runs, messages, msgRun, current_dept, deptSince, chat,
                   selected_dept, prompt, full_response>>
    /\ UNCHANGED docVars

\* handle_error, lines 417-425, called by the handler at lines 403-404. An
\* exception of its own log_audit_entry is caught by nothing: the script run
\* ends there, as it does when the call returns.
handle_error ==
    /\ at = "except"
    /\ messages' = Append(messages, AssistantMsg(ErrorReply))
    /\ msgRun' = Append(msgRun, runs)
    /\ \E raises \in BOOLEAN :
          log_audit_entry("SYSTEM ERROR", "GLOBAL", raises, "idle", "idle")
    /\ UNCHANGED <<runs, current_dept, deptSince, chat, selected_dept, prompt,
                   full_response>>
    /\ UNCHANGED docVars

SessionNext ==
    \/ Rerun
    \/ AppendUser
    \/ SendQuery
    \/ Chunk
    \/ StreamRaises
    \/ AppendReply
    \/ Audit
    \/ handle_error

SessionSpec == SessionInit /\ [][SessionNext]_vars

\* ------------------------------------------------- vocabulary of the claims
AfterLoop == pc # "paragraphs"

Paras == 1..Len(doc.paragraphs)

NonEmptyAt(p) == Strip(doc.paragraphs[p].text) # <<>>

\* The paragraph carries the heading style or a bold first run.
HeadFlagAt(p) == IsHeadingOrBold(doc.paragraphs[p])

HeadingAt(p) == NonEmptyAt(p) /\ HeadFlagAt(p)

BodyAt(p) == NonEmptyAt(p) /\ ~HeadFlagAt(p)

MaxOf(S) == CHOOSE x \in S : \A y \in S : y <= x

MinOf(S) == CHOOSE x \in S : \A y \in S : x <= y

RECURSIVE Sorted(_)
Sorted(S) == IF S = {} THEN <<>> ELSE <<MinOf(S)>> \o Sorted(S \ {MinOf(S)})

RECURSIVE Flatten(_)
Flatten(ss) == IF ss = <<>> THEN <<>> ELSE Head(ss) \o Flatten(Tail(ss))

Bodies == {p \in Paras : BodyAt(p)}

\* The nearest preceding heading-or-emphasized paragraph with text (0: none).
OwnerOf(p) == MaxOf({0} \cup {h \in 1..(p - 1) : HeadingAt(h)})

\* The nearest preceding heading-or-emphasized paragraph, blank or not.
FlagOwnerOf(p) == MaxOf({0} \cup {h \in 1..(p - 1) : HeadFlagAt(h)})

TitleOf(h) == IF h = 0 THEN Introduction ELSE Strip(doc.paragraphs[h].text)

SectionOf(h, Own(_)) ==
    LET mine == Sorted({p \in Bodies : Own(p) = h})
    IN [title |-> TitleOf(h),
        content |-> [k \in 1..Len(mine) |-> Strip(doc.paragraphs[mine[k]].text)]]

\* The sections the claim describes, under an assignment of bodies to headings.
SectionsBy(Own(_)) ==
    LET owners == Sorted({Own(p) : p \in Bodies})
    IN [k \in 1..Len(owners) |-> SectionOf(owners[k], Own)]

SameSections(expected) ==
    /\ Len(text_content) = Len(expected)
    /\ \A k \in 1..Len(expected) :
          /\ text_content[k].title = expected[k].title
          /\ text_content[k].content = expected[k].content

ContentIsBodies ==
    LET bodies == Sorted(Bodies)
    IN Flatten([k \in 1..Len(text_content) |-> text_content[k].content])
         = [k \in 1..Len(bodies) |-> Strip(doc.paragraphs[bodies[k]].text)]

NoHeadingsOneIntro ==
    (\A p \in Paras : ~HeadFlagAt(p))
        => /\ Len(text_content) <= 1
           /\ \A k \in 1..Len(text_content) : text_content[k].title = Introduction

NoBodyBetween(a, b) == \A m \in (a + 1)..(b - 1) : ~BodyAt(m)

\* For the pair a < b: no section opened by a; one opened by b carries b's
\* text as title and exists only if body text follows b.
PairDropsFirst(a, b) ==
    /\ \A k \in 1..Len(origin) : origin[k] # a
    /\ \A k \in 1..Len(origin) :
          origin[k] = b =>
              /\ text_content[k].title = Strip(doc.paragraphs[b].text)
              /\ \E m \in Paras : m > b /\ BodyAt(m)

Done(k) == k \in 1..Len(tablesOut)

RawOf(k) == doc.tables[k].rows

Min(a, b) == IF a <= b THEN a ELSE b

\* str.split(delim)
RECURSIVE Split(_, _)
Split(s, d) ==
    LET hits == {k \in 1..(Len(s) - Len(d) + 1) : SubSeq(s, k, k + Len(d) - 1) = d}
    IN IF hits = {} THEN <<s>>
       ELSE <<SubSeq(s, 1, MinOf(hits) - 1)>>
            \o Split(SubSeq(s, MinOf(hits) + Len(d), Len(s)), d)

\* The lines of a rendered grid (each ends in a line break).
GridLines(md) == LET parts == Split(md, NL) IN SubSeq(parts, 1, Len(parts) - 1)

\* The cells of a grid line "| c1 | c2 |".
GridCells(line) == Split(SubSeq(line, 3, Len(line) - 2), Sep)

\* The caption the claim describes: the texts of the maximal run of
\* paragraphs that ends right before the table, in document order.
CaptionOf(prev) ==
    LET n == Len(prev)
        IsPara(m) == prev[m].tag = ParaTag
        start == MinOf({s \in 1..(n + 1) : \A m \in s..n : IsPara(m)})
        HasText(e) == Strip(e.text) # <<>>
        run == SelectSeq(SubSeq(prev, start, n), HasText)
    IN Join(NL, [k \in 1..Len(run) |-> Strip(run[k].text)])

HasEmptyTable == \E k \in 1..Len(doc.tables) : doc.tables[k].rows = <<>>

\* ------------------------------------------------------------------ claims

\* C1: for every table with H >= 1 headers and every data row with fewer
\* than H raw cells, the Row has one key per header, and each header whose
\* cell is missing from the source row maps to the empty string.
C1_ShortRowPadded ==
    \A k \in 1..Len(tablesOut) :
        LET t == tablesOut[k]
            H == Len(t.headers)
        IN H >= 1 =>
             \A r \in 1..Len(t.rows) :
                 LET n == Len(RawOf(k)[r + 1])
                 IN n < H =>
                      /\ DOMAIN t.rows[r] = Range(t.headers)
                      /\ \A c \in (n + 1)..H :
                            t.headers[c] \notin {t.headers[b] : b \in 1..n}
                                => t.rows[r][t.headers[c]] = <<>>

\* C2: when any table of the document has zero rows, structuring ends in an
\* error and no document, complete or partial, is returned to the caller.
C2_EmptyTableAborts ==
    HasEmptyTable =>
        /\ pc \in {"paragraphs", "tables", "stopped"}
        /\ result = NoResult
        /\ (pc = "stopped" => caught = "IndexError")
        /\ (pc = "tables" => Len(tablesOut) < Len(doc.tables))

\* C2 witness: structuring stopped on a zero-row table after a section and
\* an earlier table had been processed.
C2_Witness ==
    /\ HasEmptyTable
    /\ pc = "stopped"
    /\ text_content # <<>>
    /\ tablesOut # <<>>

\* C3 (as stated): whenever a heading-or-emphasized paragraph is followed by
\* another with no non-empty body paragraph between them, no section is
\* emitted for the first, and a section for the second appears only if
\* body text follows it.
C3_Original ==
    AfterLoop =>
        \A a \in Paras : \A b \in Paras :
            (a < b /\ HeadFlagAt(a) /\ NonEmptyAt(a) /\ HeadFlagAt(b)
                /\ NoBodyBetween(a, b))
                => PairDropsFirst(a, b)

\* C3 (amended): the same, for a pair of heading-or-emphasized paragraphs
\* that both have non-empty trimmed text.
C3_HeadingPairDropsFirst ==
    AfterLoop =>
        \A a \in Paras : \A b \in Paras :
            (a < b /\ HeadingAt(a) /\ HeadingAt(b) /\ NoBodyBetween(a, b))
                => PairDropsFirst(a, b)

\* C3 witness: two headings with no body between them, then body text: the
\* only section is the second heading's.
C3_Witness ==
    /\ AfterLoop
    /\ Len(doc.paragraphs) = 3
    /\ HeadingAt(1) /\ HeadingAt(2) /\ BodyAt(3)
    /\ doc.paragraphs[1].text # doc.paragraphs[2].text
    /\ origin = <<2>>

\* C4: a data row with more raw cells than headers has the extra cells
\* dropped, the Row is built from the first len(headers) cells, and the
\* operation completes without an error.
C4_ExtraCellsDropped ==
    \A k \in 1..Len(doc.tables) :
        LET raw == RawOf(k)
        IN (raw # <<>> /\ \E r \in 2..Len(raw) : Len(raw[r]) > Len(raw[1]))
             => /\ ~(pc = "stopped" /\ Len(tablesOut) + 1 = k)
                /\ Done(k) =>
                     \A r \in 1..Len(tablesOut[k].rows) :
                         \A key \in DOMAIN tablesOut[k].rows[r] :
                             \E c \in 1..Len(raw[1]) :
                                 /\ tablesOut[k].headers[c] = key
                                 /\ tablesOut[k].rows[r][key] = Strip(raw[r + 1][c])

\* C5: when a label heads two or more columns, each Row maps the label to
\* the cell of the first column carrying it.
C5_FirstColumnWins ==
    \A k \in 1..Len(tablesOut) :
        LET t == tablesOut[k]
        IN \A r \in 1..Len(t.rows) :
               \A c \in 1..Min(Len(t.headers), Len(RawOf(k)[r + 1])) :
                   (\A b \in 1..(c - 1) : t.headers[b] # t.headers[c])
                       => t.rows[r][t.headers[c]] = Strip(RawOf(k)[r + 1][c])

\* C6: the rendered grid is one header line, one separator line and one line
\* per Row, and splitting the lines on the cell delimiter recovers the
\* header sequence and the row count of the Table.
C6_GridRoundTrip ==
    pc = "rendered" =>
        \A k \in 1..Len(tables_md) :
            LET lines == GridLines(tables_md[k].grid)
                t == result.tables[k]
            IN /\ Len(lines) = 2 + Len(t.rows)
               /\ GridCells(lines[1]) = t.headers

\* C7: the caption is the non-empty texts of the maximal run of paragraphs
\* right before the table, in document order, joined by newline; blank
\* paragraphs are skipped, the first non-paragraph ends the scan, and the
\* caption is empty when the run has no text.
C7_CaptionIsPrecedingRun ==
    \A k \in 1..Len(tablesOut) :
        tablesOut[k].context = CaptionOf(doc.tables[k].prev)

\* C7 witness: a non-paragraph with text, then a paragraph, a blank
\* paragraph and a paragraph: the caption is the two texts in document order.
C7_Witness ==
    /\ Len(tablesOut) = 1
    /\ LET prev == doc.tables[1].prev
       IN /\ Len(prev) = 4
          /\ prev[1] = [tag |-> TblTag, text |-> <<"a">>]
          /\ prev[2] = [tag |-> ParaTag, text |-> <<"a">>]
          /\ prev[3] = [tag |-> ParaTag, text |-> <<" ">>]
          /\ prev[4] = [tag |-> ParaTag, text |-> <<"b", " ">>]
    /\ tablesOut[1].context = <<"a", "\n", "b">>

\* C8 (as stated): every non-empty body paragraph appears once, in order, in
\* the section titled by the nearest preceding heading-or-emphasized
\* paragraph ("Introduction" when none precedes it); the sections' content
\* concatenated is the body paragraphs; without heading or emphasized
\* paragraphs there is at most one section, titled "Introduction".
C8_Original ==
    AfterLoop =>
        /\ SameSections(SectionsBy(FlagOwnerOf))
        /\ ContentIsBodies
        /\ NoHeadingsOneIntro

\* C8 (amended): the same, the section being that of the nearest preceding
\* heading-or-emphasized paragraph that has non-empty trimmed text.
C8_BodiesUnderNearestHeading ==
    AfterLoop =>
        /\ SameSections(SectionsBy(OwnerOf))
        /\ ContentIsBodies
        /\ NoHeadingsOneIntro

\* C8 witness: body text before any heading and body text after a heading
\* give an "Introduction" section and the heading's section.
C8_Witness ==
    /\ AfterLoop
    /\ Len(text_content) = 2
    /\ text_content[1].title = Introduction
    /\ text_content[2].title = <<"b">>
    /\ text_content[2].content = <<<<"a">>>>

\* C9: whenever handle_user_input sends a query for the selected department,
\* the chat exists and was built with that department's system prompt, and
\* the history holds only messages exchanged since that department became
\* the current one.
C9_ChatMatchesDepartment ==
    at = "stream" =>
        /\ "chat" \in session_keys
        /\ chat = selected_dept
        /\ current_dept = selected_dept
        /\ \A k \in 1..Len(msgRun) : msgRun[k] >= deptSince

\* C10: every call of handle_user_input appends one user message followed by
\* one assistant message on every path, so between calls the history
\* alternates user, assistant and has even length.
C10_HistoryAlternates ==
    at = "idle" =>
        /\ Len(messages) % 2 = 0
        /\ \A k \in 1..Len(messages) :
              messages[k].role = IF k % 2 = 1 THEN "user" ELSE "assistant"

=============================================================================
